---------------------------- MODULE Spec2Model ----------------------------
(***************************************************************************)
(* The frame loop of src/main.cpp (a two-paddle ball game): process_input, *)
(* update and render run in sequence while g_app_status is RUNNING.        *)
(*                                                                         *)
(* Arithmetic.  The program computes on reals (floats); the model keeps    *)
(* them exact as integers counted in 1/Scale of a playfield unit.  Scale   *)
(* is chosen so that every value the program can produce within the       *)
(* bounds is an integer: the constants of the source are multiples of      *)
(* 1/1000, the clock advances in ticks of TickNum/TickDen s, and the       *)
(* ball speed is 3.0 * (203/200)^N for N <= MaxHits (1.015 = 203/200).     *)
(***************************************************************************)
EXTENDS Integers, Sequences, FiniteSets

\* Bounds of the model
MaxHits == 2
\* the clock stops at MaxTicks ticks
MaxTicks == 3
\* longest frame, in ticks
MaxDelta == 2
\* most events polled by one process_input
MaxEvents == 1

\* one tick of the clock read by update() is TickNum / TickDen of a second
TickNum == 3
TickDen == 5

Scale == 5 * 200 ^ MaxHits

\* n thousandths of a playfield unit
Milli(n) == n * (Scale \div 1000)

Abs(v) == IF v < 0 THEN -v ELSE v

Vec(a, b) == [x |-> a, y |-> b]

RUNNING == "RUNNING"
TERMINATED == "TERMINATED"

INIT_PLAYER_1_SCALE == Vec(Milli(800), Milli(1200))
INIT_PLAYER_2_SCALE == Vec(Milli(1000), Milli(1000))
INIT_BALL_SCALE == Vec(Milli(250), Milli(250))

g_paddle_speed == 3 * Scale
InitBallSpeed == 3 * Scale

\* The globals of main.cpp under their own names, and with them:
\*   pc         where main is: "process_input", "update", "render" (and the
\*              loop test after it), "shutdown", "done"
\*   polled     the events the last process_input took from SDL_PollEvent
\*   key_state  the keyboard state the last process_input read
\*   hits       the number of update() steps in which a collision branch ran
\* polled and key_state are locals of process_input: they are set there and
\* emptied by the next update().  hits is history; the program does not read it.
VARIABLES
    pc,
    g_app_status,
    right_paddle_swtich,
    g_previous_ticks,
    g_paddle_position,
    g_paddle_movement,
    g_right_paddle_position,
    g_right_paddle_movement,
    g_ball_position,
    g_ball_movement,
    g_ball_speed,
    paddle_y_distance,
    paddle_right_y_distance,
    paddle_ball_x_distance,
    paddle_ball_y_distance,
    right_paddle_ball_x_distance,
    right_paddle_ball_y_distance,
    polled,
    key_state,
    hits

vars == <<pc, g_app_status, right_paddle_swtich, g_previous_ticks,
          g_paddle_position, g_paddle_movement, g_right_paddle_position,
          g_right_paddle_movement, g_ball_position, g_ball_movement,
          g_ball_speed, paddle_y_distance, paddle_right_y_distance,
          paddle_ball_x_distance, paddle_ball_y_distance,
          right_paddle_ball_x_distance, right_paddle_ball_y_distance,
          polled, key_state, hits>>

distances == <<paddle_y_distance, paddle_right_y_distance,
               paddle_ball_x_distance, paddle_ball_y_distance,
               right_paddle_ball_x_distance, right_paddle_ball_y_distance>>

\* ------------------------------------------------------------------------
\* process_input

\* the kinds of event SDL_PollEvent can hand out that the loop looks at
EventKinds == {"SDL_QUIT", "SDLK_t", "SDLK_p"}

EventBatches == UNION {[1..n -> EventKinds] : n \in 0..MaxEvents}

\* SDL_GetKeyboardState: which of the four movement keys are held
NoKeys == [W |-> FALSE, S |-> FALSE, UP |-> FALSE, DOWN |-> FALSE]
KeyStates == [W : BOOLEAN, S : BOOLEAN, UP : BOOLEAN, DOWN : BOOLEAN]

\* faulty variant: the serve key decrements the x-direction
ServeDecrement(e, st) ==
    [status |-> IF e = "SDL_QUIT" THEN TERMINATED ELSE st.status,
     swtich |-> IF e = "SDLK_t" THEN st.swtich * (-1) ELSE st.swtich,
     ball_x |-> IF e = "SDLK_p" THEN st.ball_x - 1 ELSE st.ball_x]

\* one iteration of the event loop, on (status, switch, ball x-direction)
HandleEvent(e, st) ==
    [status |-> IF e = "SDL_QUIT" THEN TERMINATED ELSE st.status,
     swtich |-> IF e = "SDLK_t" THEN st.swtich * (-1) ELSE st.swtich,
     ball_x |-> IF e = "SDLK_p" THEN -1 ELSE st.ball_x]

RECURSIVE PollEvents(_, _)
PollEvents(evs, st) ==
    IF evs = <<>> THEN st
    ELSE PollEvents(Tail(evs), HandleEvent(Head(evs), st))

\* faulty variant: the bounds compared strictly
KeyMovementStrict(up, down, dist) ==
    LET afterUp == IF up THEN (IF dist < 0 THEN 0 ELSE 1) ELSE 0
    IN  IF down THEN (IF dist > Milli(6300) THEN 0 ELSE -1) ELSE afterUp

\* the y-component a paddle's movement gets from its two keys and the stored
\* distance to the upper bound
KeyMovement(up, down, dist) ==
    LET afterUp == IF up THEN (IF dist <= 0 THEN 0 ELSE 1) ELSE 0
    IN  IF down THEN (IF dist >= Milli(6300) THEN 0 ELSE -1) ELSE afterUp

ProcessInput ==
    /\ pc = "process_input"
    /\ \E evs \in EventBatches, keys \in KeyStates :
          LET st == PollEvents(evs, [status |-> g_app_status,
                                     swtich |-> right_paddle_swtich,
                                     ball_x |-> g_ball_movement.x])
          IN  /\ polled' = evs
              /\ key_state' = keys
              /\ g_app_status' = st.status
              /\ right_paddle_swtich' = st.swtich
              /\ g_ball_movement' = Vec(st.ball_x, g_ball_movement.y)
              /\ g_paddle_movement' =
                     Vec(0, KeyMovement(keys.W, keys.S, paddle_y_distance))
              /\ g_right_paddle_movement' =
                     Vec(0, KeyMovement(keys.UP, keys.DOWN, paddle_right_y_distance))
    /\ pc' = "update"
    /\ UNCHANGED <<g_previous_ticks, g_paddle_position, g_right_paddle_position,
                   g_ball_position, g_ball_speed, distances, hits>>

\* ------------------------------------------------------------------------
\* update

\* speed * delta_time, delta_time counted in ticks (the division is exact)
Step(speed, dt) == (speed \div TickDen) * TickNum * dt

\* faulty variant: a full tick's step whatever delta_time is
IntegrateNoDelta(pos, mov, speed, dt) ==
    Vec(pos.x + mov.x * Step(speed, 1), pos.y + mov.y * Step(speed, 1))

\* position += movement * speed * delta_time
Integrate(pos, mov, speed, dt) ==
    Vec(pos.x + mov.x * Step(speed, dt), pos.y + mov.y * Step(speed, dt))

\* faulty variant: the comparisons swapped
AITrackAway(ball, pad, dt) ==
    IF ball.y < pad.y THEN Integrate(pad, Vec(0, 1), g_paddle_speed, dt)
    ELSE IF ball.y > pad.y THEN Integrate(pad, Vec(0, -1), g_paddle_speed, dt)
    ELSE pad

\* the right paddle under right_paddle_swtich = 1: one step towards the ball
AITrack(ball, pad, dt) ==
    IF ball.y < pad.y THEN Integrate(pad, Vec(0, -1), g_paddle_speed, dt)
    ELSE IF ball.y > pad.y THEN Integrate(pad, Vec(0, 1), g_paddle_speed, dt)
    ELSE pad

\* faulty variant: the extents halved before they are summed and halved
GapHalved(a, b, sa, sb) == Abs(a - b) - (sa \div 2 + sb \div 2) \div 2

\* fabs(a - b) - (sa + sb) / 2
Gap(a, b, sa, sb) == Abs(a - b) - (sa + sb) \div 2

\* 3.15 - position.y
BoundDistance(pos) == Milli(3150) - pos.y

\* faulty variant: the factor applied twice
GrowTwice(speed) == (((speed \div 200) * 203) \div 200) * 203

\* g_ball_speed *= 1.015
Grow(speed) == (speed \div 200) * 203

\* faulty variant: each branch reads the other paddle's movement
ResolveCrossed(lx, ly, rx, ry, pm, rpm, bm, speed) ==
    IF lx <= 0 /\ ly <= 0
    THEN [movement |-> Vec(1, IF rpm.y < 0 THEN -1
                              ELSE IF rpm.y > 0 THEN 1 ELSE bm.y),
          speed |-> Grow(speed), fired |-> TRUE]
    ELSE IF rx <= 0 /\ ry <= 0
    THEN [movement |-> Vec(-1, IF pm.y < 0 THEN -1
                               ELSE IF pm.y > 0 THEN 1 ELSE bm.y),
          speed |-> Grow(speed), fired |-> TRUE]
    ELSE [movement |-> bm, speed |-> speed, fired |-> FALSE]

\* the if / else-if that resolves a paddle collision: the ball's movement and
\* speed after it, and whether a branch fired
ResolveCollision(lx, ly, rx, ry, pm, rpm, bm, speed) ==
    IF lx <= 0 /\ ly <= 0
    THEN [movement |-> Vec(1, IF pm.y < 0 THEN -1
                              ELSE IF pm.y > 0 THEN 1 ELSE bm.y),
          speed |-> Grow(speed), fired |-> TRUE]
    ELSE IF rx <= 0 /\ ry <= 0
    THEN [movement |-> Vec(-1, IF rpm.y < 0 THEN -1
                               ELSE IF rpm.y > 0 THEN 1 ELSE bm.y),
          speed |-> Grow(speed), fired |-> TRUE]
    ELSE [movement |-> bm, speed |-> speed, fired |-> FALSE]

\* the vertical bounce: movement.y *= -1 at or beyond +-3.5
Bounce(ball, bm) ==
    IF ball.y >= Milli(3500) \/ ball.y <= -Milli(3500)
    THEN Vec(bm.x, bm.y * (-1))
    ELSE bm

\* faulty variants: the right bound forgotten; the bounds too narrow
OutOfBoundsLeftOnly(x) == x <= -Milli(5000)

OutOfBoundsNarrow(x) == x >= Milli(3000) \/ x <= -Milli(3000)

\* the termination test on the ball's x-position
OutOfBounds(x) == x >= Milli(5000) \/ x <= -Milli(5000)

Update ==
    /\ pc = "update"
    /\ \E ticks \in g_previous_ticks..(g_previous_ticks + MaxDelta) :
          LET delta_time == ticks - g_previous_ticks
              ball == Integrate(g_ball_position, g_ball_movement,
                                g_ball_speed, delta_time)
              paddle == Integrate(g_paddle_position, g_paddle_movement,
                                  g_paddle_speed, delta_time)
              right == IF right_paddle_swtich = -1
                       THEN Integrate(g_right_paddle_position,
                                      g_right_paddle_movement,
                                      g_paddle_speed, delta_time)
                       ELSE AITrack(ball, g_right_paddle_position, delta_time)
              lx == Gap(ball.x, paddle.x, INIT_BALL_SCALE.x, INIT_PLAYER_1_SCALE.x)
              ly == Gap(ball.y, paddle.y, INIT_BALL_SCALE.y, INIT_PLAYER_1_SCALE.y)
              rx == Gap(ball.x, right.x, INIT_BALL_SCALE.x, INIT_PLAYER_2_SCALE.x)
              ry == Gap(ball.y, right.y, INIT_BALL_SCALE.y, INIT_PLAYER_2_SCALE.y)
              hit == ResolveCollision(lx, ly, rx, ry, g_paddle_movement,
                                      g_right_paddle_movement, g_ball_movement,
                                      g_ball_speed)
          IN  \* the bounds: the clock stops at MaxTicks, the hits at MaxHits
              /\ ticks <= MaxTicks
              /\ hit.fired => hits < MaxHits
              /\ g_previous_ticks' = ticks
              /\ g_ball_position' = ball
              /\ g_paddle_position' = paddle
              /\ g_right_paddle_position' = right
              /\ paddle_y_distance' = BoundDistance(paddle)
              /\ paddle_right_y_distance' = BoundDistance(right)
              /\ paddle_ball_x_distance' = lx
              /\ paddle_ball_y_distance' = ly
              /\ right_paddle_ball_x_distance' = rx
              /\ right_paddle_ball_y_distance' = ry
              /\ g_ball_speed' = hit.speed
              /\ hits' = IF hit.fired THEN hits + 1 ELSE hits
              /\ g_ball_movement' = Bounce(ball, hit.movement)
              /\ g_app_status' = IF OutOfBounds(ball.x) THEN TERMINATED
                                 ELSE g_app_status
    /\ polled' = <<>>
    /\ key_state' = NoKeys
    /\ pc' = "render"
    /\ UNCHANGED <<right_paddle_swtich, g_paddle_movement, g_right_paddle_movement>>

\* ------------------------------------------------------------------------
\* render, and the loop of main

\* render draws and changes nothing the loop reads; the loop test follows it
Render ==
    /\ pc = "render"
    /\ pc' = IF g_app_status = RUNNING THEN "process_input" ELSE "shutdown"
    /\ UNCHANGED <<g_app_status, right_paddle_swtich, g_previous_ticks,
                   g_paddle_position, g_paddle_movement, g_right_paddle_position,
                   g_right_paddle_movement, g_ball_position, g_ball_movement,
                   g_ball_speed, distances, polled, key_state, hits>>

Shutdown ==
    /\ pc = "shutdown"
    /\ pc' = "done"
    /\ UNCHANGED <<g_app_status, right_paddle_swtich, g_previous_ticks,
                   g_paddle_position, g_paddle_movement, g_right_paddle_position,
                   g_right_paddle_movement, g_ball_position, g_ball_movement,
                   g_ball_speed, distances, polled, key_state, hits>>

\* the globals as their initialisers leave them
Init ==
    /\ pc = "process_input"
    /\ g_app_status = RUNNING
    /\ right_paddle_swtich = -1
    /\ g_previous_ticks = 0
    /\ g_paddle_position = Vec(-Milli(4000), 0)
    /\ g_paddle_movement = Vec(0, 0)
    /\ g_right_paddle_position = Vec(Milli(4000), 0)
    /\ g_right_paddle_movement = Vec(0, 0)
    /\ g_ball_position = Vec(0, 0)
    /\ g_ball_movement = Vec(0, 0)
    /\ g_ball_speed = InitBallSpeed
    /\ paddle_y_distance = 0
    /\ paddle_right_y_distance = 0
    /\ paddle_ball_x_distance = 0
    /\ paddle_ball_y_distance = 0
    /\ right_paddle_ball_x_distance = 0
    /\ right_paddle_ball_y_distance = 0
    /\ polled = <<>>
    /\ key_state = NoKeys
    /\ hits = 0

Next == ProcessInput \/ Update \/ Render \/ Shutdown

Spec == Init /\ [][Next]_vars

\* ------------------------------------------------------------------------
\* The loop entered in the middle of a game, one tick before the clock stops:
\* the states at the top of the loop after some update(), with the ball and
\* the paddles at the places named below.  Every state is one that update()
\* leaves behind: the six distances are those of the positions, the speed is
\* that of the hit count, an unserved ball rests at the origin, a ball that
\* was never hit travels left along y = 0, a ball that overlaps a paddle has
\* been sent away from it, and the ball is inside the horizontal bounds.
\* The paddle of the half the ball is not in rests at y = 0.

SceneBallX == {-Milli(3650), -Milli(3600), -Milli(1850), Milli(1773),
               Milli(3373), Milli(3600)}
SceneBallY == {0, Milli(2000), Milli(3600)}
ScenePaddleY == {0, Milli(3000)}

RECURSIVE SpeedAfter(_)
SpeedAfter(n) == IF n = 0 THEN InitBallSpeed ELSE Grow(SpeedAfter(n - 1))

Overlaps(ball, pad, scale) ==
    /\ Gap(ball.x, pad.x, INIT_BALL_SCALE.x, scale.x) <= 0
    /\ Gap(ball.y, pad.y, INIT_BALL_SCALE.y, scale.y) <= 0

SceneBall(ball, mov, n, left, right) ==
    /\ ~OutOfBounds(ball.x)
    /\ mov.x = 0 => mov.y = 0 /\ ball = Vec(0, 0) /\ n = 0
    /\ mov.y = 0 => ball.y = 0
    /\ n = 0 => mov.y = 0 /\ mov.x <= 0 /\ ball.x <= 0
    /\ Overlaps(ball, left, INIT_PLAYER_1_SCALE) => mov.x = 1 /\ n > 0
    /\ ~Overlaps(ball, left, INIT_PLAYER_1_SCALE)
         /\ Overlaps(ball, right, INIT_PLAYER_2_SCALE) => mov.x = -1 /\ n > 0
    /\ ball.x >= 0 => left.y = 0
    /\ ball.x <= 0 => right.y = 0

SceneInit ==
    /\ pc = "process_input"
    /\ g_app_status = RUNNING
    /\ right_paddle_swtich \in {-1, 1}
    /\ g_previous_ticks = MaxTicks - 1
    /\ g_paddle_position \in {Vec(-Milli(4000), y) : y \in ScenePaddleY}
    /\ g_paddle_movement = Vec(0, 0)
    /\ g_right_paddle_position \in {Vec(Milli(4000), y) : y \in ScenePaddleY}
    /\ g_right_paddle_movement = Vec(0, 0)
    /\ g_ball_position \in {Vec(0, 0)} \cup {Vec(x, y) : x \in SceneBallX, y \in SceneBallY}
    /\ g_ball_movement \in {Vec(dx, dy) : dx \in {-1, 0, 1}, dy \in {-1, 0, 1}}
    /\ hits \in 0..1
    /\ SceneBall(g_ball_position, g_ball_movement, hits,
                 g_paddle_position, g_right_paddle_position)
    /\ g_ball_speed = SpeedAfter(hits)
    /\ paddle_y_distance = BoundDistance(g_paddle_position)
    /\ paddle_right_y_distance = BoundDistance(g_right_paddle_position)
    /\ paddle_ball_x_distance = Gap(g_ball_position.x, g_paddle_position.x,
                                    INIT_BALL_SCALE.x, INIT_PLAYER_1_SCALE.x)
    /\ paddle_ball_y_distance = Gap(g_ball_position.y, g_paddle_position.y,
                                    INIT_BALL_SCALE.y, INIT_PLAYER_1_SCALE.y)
    /\ right_paddle_ball_x_distance = Gap(g_ball_position.x, g_right_paddle_position.x,
                                          INIT_BALL_SCALE.x, INIT_PLAYER_2_SCALE.x)
    /\ right_paddle_ball_y_distance = Gap(g_ball_position.y, g_right_paddle_position.y,
                                          INIT_BALL_SCALE.y, INIT_PLAYER_2_SCALE.y)
    /\ polled = <<>>
    /\ key_state = NoKeys

SceneSpec == SceneInit /\ [][Next]_vars

\* ------------------------------------------------------------------------
\* Properties.  They are written on the variables alone, with the numbers of
\* the source, and use none of the operators above that model update() and
\* process_input().

Sign(v) == IF v < 0 THEN -1 ELSE IF v > 0 THEN 1 ELSE 0

Outside(x) == x >= Milli(5000) \/ x <= -Milli(5000)

\* the ball at ball overlaps the left (right) paddle at pad
TouchesLeft(ball, pad) ==
    /\ Abs(ball.x - pad.x) <= Milli(525)
    /\ Abs(ball.y - pad.y) <= Milli(725)

TouchesRight(ball, pad) ==
    /\ Abs(ball.x - pad.x) <= Milli(625)
    /\ Abs(ball.y - pad.y) <= Milli(625)

\* v times 1.015
Times1015(v) == (v \div 200) * 203

\* the y-direction v after the vertical bounce of a ball at height y
AfterBounce(y, v) == IF y >= Milli(3500) \/ y <= -Milli(3500) THEN -v ELSE v

\* the time update() measured in a step, in ticks, and the distance a paddle
\* covers in it
DeltaTicks == g_previous_ticks' - g_previous_ticks
PaddleStep == (Milli(3000) \div TickDen) * TickNum * DeltaTicks

\* C1: g_app_status never goes from TERMINATED back to RUNNING, and it leaves
\* RUNNING only in process_input when a quit event was polled, or in update()
\* when the ball's new x-position is >= 5 or <= -5.
C1_StatusOnlyTerminates ==
    [][/\ g_app_status = TERMINATED => g_app_status' = TERMINATED
       /\ g_app_status = RUNNING /\ g_app_status' = TERMINATED =>
             \/ /\ pc = "process_input"
                /\ \E i \in 1..Len(polled') : polled'[i] = "SDL_QUIT"
             \/ /\ pc = "update"
                /\ Outside(g_ball_position'.x)]_vars

\* the loop has ended because the ball left the field on the left
C1_Witness ==
    /\ pc = "done"
    /\ g_app_status = TERMINATED
    /\ g_ball_position.x <= -Milli(5000)

\* C2: whenever the ball's x-position is outside [-5, +5] (5.2 is), the status
\* evaluation of update() has yielded TERMINATED, whatever the rest of the
\* state is.
C2_OutsideIsTerminated ==
    Outside(g_ball_position.x) => g_app_status = TERMINATED

\* update() has just found the ball at x = 5.2
C2_Witness ==
    /\ pc = "render"
    /\ g_ball_position.x = Milli(5200)
    /\ g_app_status = TERMINATED

\* C3: the ball speed is 3.0 * 1.015^N, N the number of update() steps in
\* which the ball overlapped a paddle; it never decreases and changes in no
\* other step.
C3_SpeedIsGrowthOfHits ==
    /\ [](g_ball_speed = (InitBallSpeed \div 200 ^ hits) * 203 ^ hits)
    /\ [][/\ g_ball_speed' >= g_ball_speed
          /\ g_ball_speed' # g_ball_speed => pc = "update" /\ hits' = hits + 1
          /\ pc = "update" =>
                hits' = hits +
                   (IF \/ TouchesLeft(g_ball_position', g_paddle_position')
                       \/ TouchesRight(g_ball_position', g_right_paddle_position')
                    THEN 1 ELSE 0)
          /\ pc # "update" => hits' = hits]_vars

\* the ball has been hit twice
C3_Witness ==
    /\ hits >= 2
    /\ g_ball_speed > InitBallSpeed

\* C4: every component of the two paddles' movement and of the ball's
\* movement is -1, 0 or 1.
C4_MovementComponentsAreUnit ==
    /\ g_paddle_movement.x \in {-1, 0, 1}
    /\ g_paddle_movement.y \in {-1, 0, 1}
    /\ g_right_paddle_movement.x \in {-1, 0, 1}
    /\ g_right_paddle_movement.y \in {-1, 0, 1}
    /\ g_ball_movement.x \in {-1, 0, 1}
    /\ g_ball_movement.y \in {-1, 0, 1}

\* both paddles move and the left one has sent the ball right and down
C4_Witness ==
    /\ g_paddle_movement.y = -1
    /\ g_right_paddle_movement.y = 1
    /\ g_ball_movement = Vec(1, -1)
    /\ hits >= 1

\* C5: in an update() step whose new positions have the ball overlap the left
\* paddle, the x-direction becomes +1, the speed is multiplied by 1.015 once
\* and the y-direction that goes into the vertical bounce is the left
\* paddle's movement if that is not 0, else the ball's own; otherwise, if the
\* ball overlaps the right paddle, the same with -1 and the right paddle's
\* movement; otherwise direction and speed go into the bounce unchanged.
C5_CollisionResolution ==
    [][pc = "update" =>
         LET left == TouchesLeft(g_ball_position', g_paddle_position')
             right == TouchesRight(g_ball_position', g_right_paddle_position')
             y == g_ball_position'.y
         IN  /\ left =>
                   /\ g_ball_movement'.x = 1
                   /\ g_ball_speed' = Times1015(g_ball_speed)
                   /\ g_ball_movement'.y =
                         AfterBounce(y, IF g_paddle_movement.y # 0
                                        THEN g_paddle_movement.y
                                        ELSE g_ball_movement.y)
             /\ ~left /\ right =>
                   /\ g_ball_movement'.x = -1
                   /\ g_ball_speed' = Times1015(g_ball_speed)
                   /\ g_ball_movement'.y =
                         AfterBounce(y, IF g_right_paddle_movement.y # 0
                                        THEN g_right_paddle_movement.y
                                        ELSE g_ball_movement.y)
             /\ ~left /\ ~right =>
                   /\ g_ball_movement'.x = g_ball_movement.x
                   /\ g_ball_speed' = g_ball_speed
                   /\ g_ball_movement'.y = AfterBounce(y, g_ball_movement.y)]_vars

\* update() has just sent the ball right and down off the left paddle, which
\* moves down while the right paddle moves up
C5_Witness ==
    /\ pc = "render"
    /\ TouchesLeft(g_ball_position, g_paddle_position)
    /\ g_paddle_movement.y = -1
    /\ g_right_paddle_movement.y = 1
    /\ g_ball_position.y = 0
    /\ g_ball_movement = Vec(1, -1)

\* C6 as claimed: left paddle at (-4, 0), ball moving left; when update()
\* evaluates the distances with the ball at (-3.65, 0) the horizontal gap is
\* 0.0875 and direction and speed are unchanged; with the ball at (-3.6, 0)
\* the gap is <= 0, the x-direction becomes +1 and the speed grows by 1.015.
C6_Original ==
    [][/\ pc = "update"
       /\ g_paddle_position' = Vec(-Milli(4000), 0)
       /\ g_ball_movement.x = -1
       /\ g_ball_position'.y = 0
       =>
       /\ g_ball_position'.x = -Milli(3650) =>
             /\ 2 * paddle_ball_x_distance' = Milli(175)
             /\ g_ball_movement'.x = -1
             /\ g_ball_speed' = g_ball_speed
       /\ g_ball_position'.x = -Milli(3600) =>
             /\ paddle_ball_x_distance' <= 0
             /\ g_ball_movement'.x = 1
             /\ g_ball_speed' = Times1015(g_ball_speed)]_vars

\* C6 as amended: at (-3.65, 0) the horizontal gap is 0.35 - 0.525 = -0.175,
\* at (-3.6, 0) it is -0.125; in both the collision fires: the x-direction
\* becomes +1 and the speed grows by 1.015.
C6_CollisionAtBothPlaces ==
    [][/\ pc = "update"
       /\ g_paddle_position' = Vec(-Milli(4000), 0)
       /\ g_ball_movement.x = -1
       /\ g_ball_position'.y = 0
       =>
       /\ g_ball_position'.x = -Milli(3650) =>
             /\ paddle_ball_x_distance' = -Milli(175)
             /\ g_ball_movement'.x = 1
             /\ g_ball_speed' = Times1015(g_ball_speed)
       /\ g_ball_position'.x = -Milli(3600) =>
             /\ paddle_ball_x_distance' = -Milli(125)
             /\ g_ball_movement'.x = 1
             /\ g_ball_speed' = Times1015(g_ball_speed)]_vars

\* a ball never hit before, so one that came from the right, has just been
\* evaluated at (-3.65, 0) against the left paddle at (-4, 0)
C6_Witness ==
    /\ pc = "render"
    /\ g_paddle_position = Vec(-Milli(4000), 0)
    /\ g_ball_position = Vec(-Milli(3650), 0)
    /\ hits = 1
    /\ g_ball_speed = Times1015(InitBallSpeed)
    /\ g_ball_movement.x = 1

\* C7 as claimed: a ball at or above y = 3.5 (3.6 is) with y-direction +1 has
\* y-direction -1 after one update() step, whatever delta_time is; a ball at
\* or below -3.5 with y-direction -1 has y-direction +1 after one step.
C7_BounceTurnsBallBack ==
    [][pc = "update" =>
         /\ g_ball_position.y >= Milli(3500) /\ g_ball_movement.y = 1
               => g_ball_movement'.y = -1
         /\ g_ball_position.y <= -Milli(3500) /\ g_ball_movement.y = -1
               => g_ball_movement'.y = 1]_vars

\* C8: in an update() step with right_paddle_swtich = 1 the right paddle
\* moves by paddle speed * delta_time towards the ball's (new) vertical
\* position and stays where it is when they are level, whatever keys are
\* held; with right_paddle_swtich = -1 it moves by its movement vector.
C8_AITracking ==
    [][pc = "update" =>
         /\ g_right_paddle_position'.x = g_right_paddle_position.x
         /\ right_paddle_swtich = 1 =>
               g_right_paddle_position'.y = g_right_paddle_position.y
                  + Sign(g_ball_position'.y - g_right_paddle_position.y) * PaddleStep
         /\ right_paddle_swtich = -1 =>
               g_right_paddle_position'.y = g_right_paddle_position.y
                  + g_right_paddle_movement.y * PaddleStep]_vars

\* AI mode, the ball above the paddle, the Down key's movement stored: the
\* paddle has gone up by one tick's distance from y = 0
C8_Witness ==
    /\ pc = "render"
    /\ right_paddle_swtich = 1
    /\ g_right_paddle_movement.y = -1
    /\ g_right_paddle_position.y = (Milli(3000) \div TickDen) * TickNum
    /\ g_ball_position.y > g_right_paddle_position.y

\* C9: an update() step that measures delta_time = 0 leaves the ball's and
\* both paddles' positions as they were.
C9_ZeroDeltaKeepsPositions ==
    [][pc = "update" /\ g_previous_ticks' = g_previous_ticks =>
         /\ g_ball_position' = g_ball_position
         /\ g_paddle_position' = g_paddle_position
         /\ g_right_paddle_position' = g_right_paddle_position]_vars

\* update() has run without the clock advancing, with the ball and the left
\* paddle moving and the right paddle tracking a ball that is not level
C9_Witness ==
    /\ pc = "render"
    /\ g_previous_ticks = MaxTicks - 1
    /\ g_ball_movement.x # 0
    /\ g_ball_movement.y # 0
    /\ g_paddle_movement.y # 0
    /\ right_paddle_swtich = 1
    /\ g_ball_position.y # g_right_paddle_position.y

\* what C10 allows as movement y-component m for keys up and down and the
\* stored distance dist
Gated(m, up, down, dist) ==
    /\ m \in {-1, 0, 1}
    /\ m = 1 => up /\ dist > 0
    /\ m = -1 => down /\ dist < Milli(6300)
    /\ ~up /\ ~down => m = 0
    /\ up /\ ~down => m = (IF dist <= 0 THEN 0 ELSE 1)
    /\ down /\ ~up => m = (IF dist >= Milli(6300) THEN 0 ELSE -1)

\* C10: process_input sets a paddle's movement y-component from the held keys
\* and the stored distance (up gives +1 unless the distance is <= 0, down
\* gives -1 unless it is >= 6.3, else 0); the stored distance is the one
\* update() computed last, 3.15 - y of the position it left, and
\* process_input changes neither the distance nor the position.
C10_GatedByStoredDistance ==
    [][/\ pc = "process_input" =>
             /\ paddle_y_distance' = paddle_y_distance
             /\ paddle_right_y_distance' = paddle_right_y_distance
             /\ g_paddle_position' = g_paddle_position
             /\ g_right_paddle_position' = g_right_paddle_position
             /\ g_paddle_movement'.x = 0
             /\ g_right_paddle_movement'.x = 0
             /\ Gated(g_paddle_movement'.y, key_state'.W, key_state'.S,
                      paddle_y_distance)
             /\ Gated(g_right_paddle_movement'.y, key_state'.UP, key_state'.DOWN,
                      paddle_right_y_distance)
       /\ pc = "update" =>
             /\ paddle_y_distance' = Milli(3150) - g_paddle_position'.y
             /\ paddle_right_y_distance' = Milli(3150) - g_right_paddle_position'.y]_vars

\* the left paddle has passed its upper bound and the held W key is refused
C10_Witness ==
    /\ pc = "update"
    /\ key_state.W /\ ~key_state.S
    /\ g_paddle_position.y > Milli(3150)
    /\ paddle_y_distance = Milli(3150) - g_paddle_position.y
    /\ g_paddle_movement.y = 0

=============================================================================
